---- MODULE Spec2Model ----
(***************************************************************************)
(* Model of the transaction core of brinick/fs (transaction/main.go), of   *)
(* the backends that plug into it (transaction/cvmfs/cvmfs.go), and of     *)
(* functions of package fs (main.go, dirs.go, files.go).                   *)
(*                                                                         *)
(* One Transaction value is shared by the callers.  A call of Open, Close  *)
(* or Abort is a small process: it enters, invokes the backend, waits      *)
(* between attempts (racing a timer against its context) and returns.      *)
(* The backend's answers and the context's events are inputs.              *)
(***************************************************************************)
EXTENDS Integers, Sequences, FiniteSets

(* The callers.  Spec lets one caller use the transaction, as the code's   *)
(* usage contract asks; SpecConc lets both run calls at the same time.     *)
Callers == {"a", "b"}
SeqCallers == {"a"}

(* Largest attempt count an injected backend reports when asked. *)
MaxReported == 4

(* Seconds an injected Stopper reports as the wait between publish attempts *)
(* (1 is the value of the spec's scenario, 30 the core's default).          *)
WaitValues == {1, 30}

(* ---------------------------------------------------------------------- *)
(* Errors.  An error value is a record: tag is the Go type, of the wrapped *)
(* or named error.                                                         *)
(* ---------------------------------------------------------------------- *)
Nil == [tag |-> "nil", of |-> "nil"]

(* A bare error value: context.Canceled, context.DeadlineExceeded, or an   *)
(* ordinary backend failure (ErrA, ErrB, the relPath failure).             *)
Plain(e) == [tag |-> "plain", of |-> e]

Canceled == Plain("Canceled")
DeadlineExceeded == Plain("DeadlineExceeded")

(* transaction.OpenError{Err: e}, CloseError{Err: e}, AbortError{Err: e};  *)
(* e is the name of the wrapped error, "nil" for a nil Err.                *)
OpenError(e) == [tag |-> "OpenError", of |-> e]
CloseError(e) == [tag |-> "CloseError", of |-> e]
AbortError(e) == [tag |-> "AbortError", of |-> e]

(* errors.Is(err, target) for a bare target: err is that value.  The phase *)
(* error types define Error() only, no Unwrap and no Is, so errors.Is does *)
(* not look inside them.                                                   *)
ErrorsIs(err, target) == err.tag = "plain" /\ err = target

(* What a command run under the context can end with (shell result Err()). *)
RunErrs == {"nil", "Canceled", "DeadlineExceeded", "ErrA"}

(* ---------------------------------------------------------------------- *)
(* Backends.                                                               *)
(* ---------------------------------------------------------------------- *)
Backends == {"mock", "cvmfs", "afs"}

(* Transaction.OpenAttempts / PublishAttempts / PublishAttemptsWait of the *)
(* core: the defaults.                                                     *)
OpenAttempts == 3
PublishAttempts == 3
PublishAttemptsWait == 30

(* An Open that waits as long as a Close does by default. *)
OpenWait_asPublish == PublishAttemptsWait

(* Seconds of the wait between two open attempts. *)
OpenWait == 10

(* Start(ctx) of the Starter. *)
StartResults(b) ==
    CASE b = "mock"  -> {Nil, Canceled, DeadlineExceeded, Plain("ErrA"), Plain("ErrB")}
      [] b = "cvmfs" -> {Plain("relPath")} \cup {OpenError(e) : e \in RunErrs}
      [] b = "afs"   -> {Nil}

(* Stop(ctx) of the Stopper. *)
StopResults(b) ==
    CASE b = "mock"  -> {Nil, Canceled, DeadlineExceeded, Plain("ErrA"), Plain("ErrB")}
      [] b = "cvmfs" -> {Plain("relPath")} \cup {CloseError(e) : e \in RunErrs}
      [] b = "afs"   -> {Nil}

(* Kill(ctx) of the Aborter. *)
KillResults(b) ==
    CASE b = "mock"  -> {Nil, Canceled, Plain("ErrA")}
      [] b = "cvmfs" -> {AbortError(e) : e \in RunErrs}
      [] b = "afs"   -> {Nil}

(* Whether the Aborter field is set: the constructors of the cvmfs and afs *)
(* backends set Starter and Stopper only.                                  *)
AborterSet(b) == b = "mock"

(* What the backend's OpenAttempts() / PublishAttempts() can report: an    *)
(* injected backend reports what it likes, the cvmfs and afs backends have *)
(* the methods promoted from the embedded core.                            *)
ReportedOpenAttempts(b) == IF b = "mock" THEN 1..MaxReported ELSE {OpenAttempts}
ReportedPublishAttempts(b) == IF b = "mock" THEN 1..MaxReported ELSE {PublishAttempts}
ReportedWaits(b) == IF b = "mock" THEN WaitValues ELSE {PublishAttemptsWait}

VARIABLES
    ongoing,     \* Transaction.ongoing
    backend,     \* which backend was plugged in at construction
    stopperWait, \* what Stopper.PublishAttemptsWait() reports now
    op,          \* per caller: the operation of its current or last call
    pc,          \* per caller: "idle", "loop", "wait", "done", "panic"
    exit,        \* per caller: the return statement the call left by
    attempts,    \* per caller: the local variable attempts
    err,         \* per caller: the local variable err declared before the loop
    ret,         \* per caller: the value the call returned
    ctx,         \* per caller: the context of the call: "live" or its Err()
    calls,       \* per caller: the backend invocations of the call, in order
    waits,       \* per caller: the seconds of each wait the call entered
    entry,       \* per caller: the ongoing flag when the call entered
    reported,    \* per caller: what the backend's attempt count method reports
    prev,        \* per caller: the call before the current one
    fcall        \* the last call of a function of package fs: inputs and result

tvars == <<ongoing, backend, stopperWait>>
cvars == <<op, pc, exit, attempts, err, ret, ctx, calls, waits, entry, reported, prev>>
vars == <<ongoing, backend, stopperWait, op, pc, exit, attempts, err, ret, ctx,
          calls, waits, entry, reported, prev, fcall>>

CtxStates == {"live", "Canceled", "DeadlineExceeded"}

NoCall == [op |-> "none", ret |-> Nil, entry |-> FALSE, exit |-> "none", first |-> FALSE]

(* No function of package fs has been called. *)
NoFCall == [fn |-> "none", done |-> FALSE]

(* The transaction after construction, no call made. *)
TxInit ==
    /\ ongoing = FALSE
    /\ backend \in Backends
    /\ stopperWait \in ReportedWaits(backend)
    /\ op = [c \in Callers |-> "none"]
    /\ pc = [c \in Callers |-> "idle"]
    /\ exit = [c \in Callers |-> "none"]
    /\ attempts = [c \in Callers |-> 0]
    /\ err = [c \in Callers |-> Nil]
    /\ ret = [c \in Callers |-> Nil]
    /\ ctx = [c \in Callers |-> "live"]
    /\ calls = [c \in Callers |-> <<>>]
    /\ waits = [c \in Callers |-> <<>>]
    /\ entry = [c \in Callers |-> FALSE]
    /\ reported = [c \in Callers |-> 0]
    /\ prev = [c \in Callers |-> NoCall]

Init == TxInit /\ fcall = NoFCall

(* ---------------------------------------------------------------------- *)
(* Entering a call.  A caller starts its next call when its last one has   *)
(* returned; the context it passes may be done already.                    *)
(* ---------------------------------------------------------------------- *)
Free(c) == pc[c] \in {"idle", "done"}

LastCall(c) ==
    [op |-> op[c], ret |-> ret[c], entry |-> entry[c], exit |-> exit[c],
     first |-> (op[c] # "none" /\ prev[c].op = "none")]

Begin(c, o, cx) ==
    /\ Free(c)
    /\ op' = [op EXCEPT ![c] = o]
    /\ ctx' = [ctx EXCEPT ![c] = cx]
    /\ waits' = [waits EXCEPT ![c] = <<>>]
    /\ entry' = [entry EXCEPT ![c] = ongoing]
    /\ prev' = [prev EXCEPT ![c] = LastCall(c)]

(* A return statement: the call is over, with value r, left at site x. *)
Return(c, r, x) ==
    /\ pc' = [pc EXCEPT ![c] = "done"]
    /\ ret' = [ret EXCEPT ![c] = r]
    /\ exit' = [exit EXCEPT ![c] = x]

(* ctx.Err() of a context that is done. *)
CtxErr(c) == Plain(ctx[c])

(* ---------------------------------------------------------------------- *)
(* Open                                                                    *)
(* ---------------------------------------------------------------------- *)

(* The loop's exit test on the result of Start: no error, or a context     *)
(* cancel/deadline error.                                                  *)
OpenBreaks(r) ==
    r = Nil \/ ErrorsIs(r, Canceled) \/ ErrorsIs(r, DeadlineExceeded)

(* The variable err that Open returns, after a Start that returned r:      *)
(* `err := t.Starter.Start(ctx)` declares a new err inside the loop body,  *)
(* the one declared before the loop is left as it was.                     *)
OpenErrAfterStart(outer, r) == outer

(* An Open without the test of the flag: it always goes to the loop. *)
OpenEnter_unguarded(c) ==
    /\ \E cx \in CtxStates : Begin(c, "Open", cx)
    /\ calls' = [calls EXCEPT ![c] = <<>>]
    /\ \E n \in ReportedOpenAttempts(backend) :
           reported' = [reported EXCEPT ![c] = n]
    /\ attempts' = [attempts EXCEPT ![c] = OpenAttempts]
    /\ err' = [err EXCEPT ![c] = Nil]
    /\ pc' = [pc EXCEPT ![c] = "loop"]
    /\ UNCHANGED <<ret, exit>>
    /\ UNCHANGED tvars
    /\ UNCHANGED fcall

(* Open up to the loop: the no-op when ongoing, else the attempt count.    *)
OpenEnter(c) ==
    /\ \E cx \in CtxStates : Begin(c, "Open", cx)
    /\ calls' = [calls EXCEPT ![c] = <<>>]
    /\ \E n \in ReportedOpenAttempts(backend) :
           reported' = [reported EXCEPT ![c] = n]
    /\ IF ongoing
          THEN /\ Return(c, Nil, "noop")
               /\ UNCHANGED <<attempts, err>>
          ELSE /\ attempts' = [attempts EXCEPT ![c] = OpenAttempts]
               /\ err' = [err EXCEPT ![c] = Nil]
               /\ pc' = [pc EXCEPT ![c] = "loop"]
               /\ UNCHANGED <<ret, exit>>
    /\ UNCHANGED tvars
    /\ UNCHANGED fcall

(* An Open that tests the flag again before each Start, and returns as on  *)
(* entry when the transaction has become ongoing.                          *)
OpenAttempt_rechecks(c) ==
    /\ pc[c] = "loop" /\ op[c] = "Open" /\ attempts[c] > 0
    /\ IF ongoing
          THEN /\ Return(c, Nil, "noop")
               /\ UNCHANGED <<ongoing, attempts, err, calls, waits>>
          ELSE \E r \in StartResults(backend) :
               /\ calls' = [calls EXCEPT ![c] = Append(@, [fn |-> "Start", res |-> r])]
               /\ err' = [err EXCEPT ![c] = OpenErrAfterStart(@, r)]
               /\ IF OpenBreaks(r)
                     THEN /\ ongoing' = (r = Nil)
                          /\ Return(c, OpenErrAfterStart(err[c], r), "end")
                          /\ UNCHANGED <<attempts, waits>>
                     ELSE /\ attempts' = [attempts EXCEPT ![c] = @ - 1]
                          /\ waits' = [waits EXCEPT ![c] = Append(@, OpenWait)]
                          /\ pc' = [pc EXCEPT ![c] = "wait"]
                          /\ UNCHANGED <<ongoing, ret, exit>>
    /\ UNCHANGED <<backend, stopperWait, op, ctx, entry, reported, prev>>
    /\ UNCHANGED fcall

(* One turn of Open's loop: Start, then break and return, or count the     *)
(* attempt and enter the wait.                                             *)
OpenAttempt(c) ==
    /\ pc[c] = "loop" /\ op[c] = "Open" /\ attempts[c] > 0
    /\ \E r \in StartResults(backend) :
        /\ calls' = [calls EXCEPT ![c] = Append(@, [fn |-> "Start", res |-> r])]
        /\ err' = [err EXCEPT ![c] = OpenErrAfterStart(@, r)]
        /\ IF OpenBreaks(r)
              THEN /\ ongoing' = (r = Nil)
                   /\ Return(c, OpenErrAfterStart(err[c], r), "end")
                   /\ UNCHANGED <<attempts, waits>>
              ELSE /\ attempts' = [attempts EXCEPT ![c] = @ - 1]
                   /\ waits' = [waits EXCEPT ![c] = Append(@, OpenWait)]
                   /\ pc' = [pc EXCEPT ![c] = "wait"]
                   /\ UNCHANGED <<ongoing, ret, exit>>
    /\ UNCHANGED <<backend, stopperWait, op, ctx, entry, reported, prev>>
    /\ UNCHANGED fcall

(* The loop condition fails: return err. *)
OpenExhausted(c) ==
    /\ pc[c] = "loop" /\ op[c] = "Open" /\ ~(attempts[c] > 0)
    /\ Return(c, err[c], "end")
    /\ UNCHANGED <<tvars, op, attempts, err, ctx, calls, waits, entry, reported, prev>>
    /\ UNCHANGED fcall

(* ---------------------------------------------------------------------- *)
(* The wait between attempts, of Open and of Close: a select on the timer  *)
(* and on ctx.Done().                                                      *)
(* ---------------------------------------------------------------------- *)

(* A wait without the timer: with the context live it stays where it is. *)
WaitTimer_missing(c) ==
    /\ pc[c] = "wait" /\ ctx[c] = "live"
    /\ UNCHANGED vars

(* The timer fires first: back to the loop condition.  A select that is   *)
(* blocked is completed by the first of its channels to become ready, and  *)
(* one entered with the context done takes the ctx.Done() case, the timer  *)
(* of a positive duration not being ready yet.                             *)
WaitTimer(c) ==
    /\ pc[c] = "wait" /\ ctx[c] = "live"
    /\ pc' = [pc EXCEPT ![c] = "loop"]
    /\ UNCHANGED <<tvars, op, exit, attempts, err, ret, ctx, calls, waits, entry,
                   reported, prev>>
    /\ UNCHANGED fcall

(* A wait that does not look at the context: it goes on to the next turn. *)
WaitCtxDone_ignored(c) ==
    /\ pc[c] = "wait" /\ ctx[c] # "live"
    /\ pc' = [pc EXCEPT ![c] = "loop"]
    /\ UNCHANGED <<tvars, op, exit, attempts, err, ret, ctx, calls, waits, entry,
                   reported, prev>>
    /\ UNCHANGED fcall

(* The context is done: return ctx.Err(). *)
WaitCtxDone(c) ==
    /\ pc[c] = "wait" /\ ctx[c] # "live"
    /\ Return(c, CtxErr(c), "ctx")
    /\ UNCHANGED <<tvars, op, attempts, err, ctx, calls, waits, entry, reported, prev>>
    /\ UNCHANGED fcall

(* The context of a running call is cancelled or its deadline passes. *)
CtxEvent(c) ==
    /\ pc[c] \in {"loop", "wait"} /\ ctx[c] = "live"
    /\ \E e \in CtxStates \ {"live"} : ctx' = [ctx EXCEPT ![c] = e]
    /\ UNCHANGED <<tvars, op, pc, exit, attempts, err, ret, calls, waits, entry,
                   reported, prev>>
    /\ UNCHANGED fcall

(* ---------------------------------------------------------------------- *)
(* SetOngoing                                                              *)
(* ---------------------------------------------------------------------- *)
(* A SetOngoing that assigns nothing. *)
SetOngoing_skipped(c) ==
    /\ Begin(c, "SetOngoing", "live")
    /\ calls' = [calls EXCEPT ![c] = <<>>]
    /\ Return(c, Nil, "set")
    /\ UNCHANGED <<ongoing, backend, stopperWait, attempts, err, reported>>
    /\ UNCHANGED fcall

(* A SetOngoing that flips the flag. *)
SetOngoing_flipped(c) ==
    /\ Begin(c, "SetOngoing", "live")
    /\ calls' = [calls EXCEPT ![c] = <<>>]
    /\ ongoing' = ~ongoing
    /\ Return(c, Nil, "set")
    /\ UNCHANGED <<backend, stopperWait, attempts, err, reported>>
    /\ UNCHANGED fcall

SetOngoing(c) ==
    /\ Begin(c, "SetOngoing", "live")
    /\ calls' = [calls EXCEPT ![c] = <<>>]
    /\ ongoing' = TRUE
    /\ Return(c, Nil, "set")
    /\ UNCHANGED <<backend, stopperWait, attempts, err, reported>>
    /\ UNCHANGED fcall

(* ---------------------------------------------------------------------- *)
(* Close                                                                   *)
(* ---------------------------------------------------------------------- *)

(* An exit test that ends the loop on success only. *)
CloseBreaks_successOnly(r) == r = Nil

(* The loop's exit test on the result of Stop. *)
CloseBreaks(r) ==
    r = Nil \/ ErrorsIs(r, Canceled) \/ ErrorsIs(r, DeadlineExceeded)

(* The flag after the loop has ended with err = e: `t.ongoing = (err !=    *)
(* nil)` at the break (brk), then `if err != nil { t.ongoing = false }`.   *)
CloseFlag(flag, e, brk) ==
    LET atBreak == IF brk THEN (e # Nil) ELSE flag
    IN  IF e # Nil THEN FALSE ELSE atBreak

(* A Close without the test of the flag: it always goes to the loop. *)
CloseEnter_unguarded(c) ==
    /\ \E cx \in CtxStates : Begin(c, "Close", cx)
    /\ calls' = [calls EXCEPT ![c] = <<>>]
    /\ \E n \in ReportedPublishAttempts(backend) :
           reported' = [reported EXCEPT ![c] = n]
    /\ attempts' = [attempts EXCEPT ![c] = PublishAttempts]
    /\ err' = [err EXCEPT ![c] = Nil]
    /\ pc' = [pc EXCEPT ![c] = "loop"]
    /\ UNCHANGED <<ret, exit>>
    /\ UNCHANGED tvars
    /\ UNCHANGED fcall

CloseEnter(c) ==
    /\ \E cx \in CtxStates : Begin(c, "Close", cx)
    /\ calls' = [calls EXCEPT ![c] = <<>>]
    /\ \E n \in ReportedPublishAttempts(backend) :
           reported' = [reported EXCEPT ![c] = n]
    /\ IF ~ongoing
          THEN /\ Return(c, Nil, "noop")
               /\ UNCHANGED <<attempts, err>>
          ELSE /\ attempts' = [attempts EXCEPT ![c] = PublishAttempts]
               /\ err' = [err EXCEPT ![c] = Nil]
               /\ pc' = [pc EXCEPT ![c] = "loop"]
               /\ UNCHANGED <<ret, exit>>
    /\ UNCHANGED tvars
    /\ UNCHANGED fcall

(* One turn of Close's loop: Stop, then break, clear the flag and return,  *)
(* or count the attempt and enter the wait.                                *)
CloseAttempt(c) ==
    /\ pc[c] = "loop" /\ op[c] = "Close" /\ attempts[c] > 0
    /\ \E r \in StopResults(backend) :
        /\ calls' = [calls EXCEPT ![c] = Append(@, [fn |-> "Stop", res |-> r])]
        /\ err' = [err EXCEPT ![c] = r]
        /\ IF CloseBreaks(r)
              THEN /\ ongoing' = CloseFlag(ongoing, r, TRUE)
                   /\ Return(c, r, "end")
                   /\ UNCHANGED <<attempts, waits>>
              ELSE /\ attempts' = [attempts EXCEPT ![c] = @ - 1]
                   /\ waits' = [waits EXCEPT ![c] = Append(@, stopperWait)]
                   /\ pc' = [pc EXCEPT ![c] = "wait"]
                   /\ UNCHANGED <<ongoing, ret, exit>>
    /\ UNCHANGED <<backend, stopperWait, op, ctx, entry, reported, prev>>
    /\ UNCHANGED fcall

(* The loop condition fails: clear the flag if err is set, return err. *)
CloseExhausted(c) ==
    /\ pc[c] = "loop" /\ op[c] = "Close" /\ ~(attempts[c] > 0)
    /\ ongoing' = CloseFlag(ongoing, err[c], FALSE)
    /\ Return(c, err[c], "end")
    /\ UNCHANGED <<backend, stopperWait, op, attempts, err, ctx, calls, waits,
                   entry, reported, prev>>
    /\ UNCHANGED fcall

(* ---------------------------------------------------------------------- *)
(* Abort                                                                   *)
(* ---------------------------------------------------------------------- *)

(* An Abort that clears the flag. *)
AbortFlag_cleared(flag) == FALSE

(* The flag after Abort has called Kill: Abort assigns nothing. *)
AbortFlag(flag) == flag

(* An Abort without the test of the flag: it always calls Kill. *)
Abort_unguarded(c) ==
    /\ \E cx \in CtxStates : Begin(c, "Abort", cx)
    /\ IF ~AborterSet(backend)
          THEN /\ pc' = [pc EXCEPT ![c] = "panic"]
               /\ calls' = [calls EXCEPT ![c] = <<>>]
               /\ UNCHANGED <<ongoing, ret, exit>>
          ELSE \E r \in KillResults(backend) :
               /\ calls' = [calls EXCEPT ![c] = <<[fn |-> "Kill", res |-> r]>>]
               /\ ongoing' = AbortFlag(ongoing)
               /\ Return(c, r, "kill")
    /\ UNCHANGED <<backend, stopperWait, attempts, err, reported>>
    /\ UNCHANGED fcall

(* An Abort that drives the Stopper: it calls Stop where Kill is meant. *)
Abort_callsStop(c) ==
    /\ \E cx \in CtxStates : Begin(c, "Abort", cx)
    /\ IF ~ongoing
          THEN /\ Return(c, Nil, "noop")
               /\ calls' = [calls EXCEPT ![c] = <<>>]
               /\ UNCHANGED ongoing
          ELSE \E r \in StopResults(backend) :
               /\ calls' = [calls EXCEPT ![c] = <<[fn |-> "Stop", res |-> r]>>]
               /\ ongoing' = AbortFlag(ongoing)
               /\ Return(c, r, "kill")
    /\ UNCHANGED <<backend, stopperWait, attempts, err, reported>>
    /\ UNCHANGED fcall

Abort(c) ==
    /\ \E cx \in CtxStates : Begin(c, "Abort", cx)
    /\ IF ~ongoing
          THEN /\ Return(c, Nil, "noop")
               /\ calls' = [calls EXCEPT ![c] = <<>>]
               /\ UNCHANGED ongoing
          ELSE IF ~AborterSet(backend)
          THEN \* t.Aborter is nil: the call of Kill panics
               /\ pc' = [pc EXCEPT ![c] = "panic"]
               /\ calls' = [calls EXCEPT ![c] = <<>>]
               /\ UNCHANGED <<ongoing, ret, exit>>
          ELSE \E r \in KillResults(backend) :
               /\ calls' = [calls EXCEPT ![c] = <<[fn |-> "Kill", res |-> r]>>]
               /\ ongoing' = AbortFlag(ongoing)
               /\ Return(c, r, "kill")
    /\ UNCHANGED <<backend, stopperWait, attempts, err, reported>>
    /\ UNCHANGED fcall

(* The injected Stopper changes what PublishAttemptsWait() reports. *)
Reconfigure ==
    /\ \E w \in ReportedWaits(backend) \ {stopperWait} : stopperWait' = w
    /\ UNCHANGED <<ongoing, backend, cvars>>
    /\ UNCHANGED fcall

Step(c) ==
    \/ OpenEnter(c) \/ OpenAttempt(c) \/ OpenExhausted(c)
    \/ WaitTimer(c) \/ WaitCtxDone(c) \/ CtxEvent(c)
    \/ SetOngoing(c)
    \/ CloseEnter(c) \/ CloseAttempt(c) \/ CloseExhausted(c)
    \/ Abort(c)

Next == (\E c \in SeqCallers : Step(c)) \/ Reconfigure

Spec == Init /\ [][Next]_vars

(* ---------------------------------------------------------------------- *)
(* Vocabulary of the properties.                                           *)
(* ---------------------------------------------------------------------- *)
Done(c, o) == pc[c] = "done" /\ op[c] = o

(* A context cancel or deadline error as the context itself gives it. *)
IsCancellation(r) == r \in {Canceled, DeadlineExceeded}

(* A backend failure that is no cancellation, bare or wrapped. *)
NonCancelFailure(r) == r # Nil /\ r.of \notin {"Canceled", "DeadlineExceeded"}

LastResult(c) == calls[c][Len(calls[c])].res

(* Every backend invocation of the call failed with a non-cancellation error. *)
AllFailed(c) ==
    /\ calls[c] # <<>>
    /\ \A i \in 1..Len(calls[c]) : NonCancelFailure(calls[c][i].res)

(* C1: when Open has returned, the ongoing flag is true if and only if     *)
(* Open returned nil.                                                      *)
C1_OngoingIffOpenNil ==
    \A c \in Callers : Done(c, "Open") => (ongoing <=> ret[c] = Nil)

(* C2: a Close that started on an ongoing transaction leaves it not        *)
(* ongoing when it returns, whatever the way it ends.                      *)
C2_CloseLeavesNotOngoing ==
    \A c \in Callers : Done(c, "Close") /\ entry[c] => ~ongoing

(* C3: when Start failed with a non-cancellation error on every attempt    *)
(* the loop permitted, Open returns the last Start error, which is not     *)
(* nil, and the transaction is not ongoing.                                *)
C3_ExhaustedOpenReturnsLastError ==
    \A c \in Callers :
        Done(c, "Open") /\ exit[c] = "end" /\ AllFailed(c)
            => ret[c] = LastResult(c) /\ ret[c] # Nil /\ ~ongoing

(* C4: when a Start call returned a context cancel or deadline error, Open *)
(* has returned that error after this call, and the transaction is not     *)
(* ongoing.                                                                *)
C4_StartCancelPropagates ==
    \A c \in Callers :
        op[c] = "Open" /\ (\E i \in 1..Len(calls[c]) : IsCancellation(calls[c][i].res))
            => /\ pc[c] = "done"
               /\ IsCancellation(LastResult(c))
               /\ ret[c] = LastResult(c)
               /\ ~ongoing

(* C5: an Open or a Close whose backend call always fails with a           *)
(* non-cancellation error invokes it exactly as many times as the          *)
(* backend's OpenAttempts() or PublishAttempts() reports for this call.    *)
C5_AttemptsAreTheBackends ==
    \A c \in Callers :
        pc[c] = "done" /\ op[c] \in {"Open", "Close"} /\ exit[c] = "end" /\ AllFailed(c)
            => Len(calls[c]) = reported[c]

(* C6: with a live context, when Start fails with retryable errors on      *)
(* attempts 1..k-1 and succeeds on attempt k, k not above the Starter's    *)
(* OpenAttempts(), Open returns nil with the transaction ongoing after     *)
(* exactly k Start calls: an Open that returned after fewer failed         *)
(* attempts than the Starter permits has given up before attempt k.        *)
C6_SuccessOnAttemptK ==
    \A c \in Callers :
        /\ Done(c, "Open") /\ ~entry[c] /\ ctx[c] = "live"
        /\ Len(calls[c]) \in 1..reported[c]
        /\ \A i \in 1..(Len(calls[c]) - 1) : NonCancelFailure(calls[c][i].res)
        => /\ LastResult(c) = Nil => ret[c] = Nil /\ ongoing
           /\ NonCancelFailure(LastResult(c)) => Len(calls[c]) = reported[c]

(* C7: after a successful Open, a Close whose every permitted Stop attempt *)
(* failed with a non-cancellation error returns the last Stop error and    *)
(* leaves the transaction not ongoing, whatever the context did meanwhile. *)
C7_ExhaustedCloseReturnsLastError ==
    \A c \in Callers :
        /\ Done(c, "Close") /\ prev[c].op = "Open" /\ entry[c]
        /\ attempts[c] = 0 /\ AllFailed(c)
        => ret[c] = LastResult(c) /\ ~ongoing

(* C8: a call that is in its wait between attempts with its context done   *)
(* makes one step only: it returns the context's error, and no Start or    *)
(* Stop is invoked, however many attempts remain.                          *)
C8_CancelledWaitReturnsCtxErr ==
    [][\A c \in Callers :
         pc[c] = "wait" /\ ctx[c] # "live"
            => \/ pc'[c] = "wait" /\ calls'[c] = calls[c]
               \/ /\ pc'[c] = "done"
                  /\ ret'[c] = Plain(ctx[c])
                  /\ calls'[c] = calls[c]
                  /\ ongoing' = ongoing]_vars

C8_Witness ==
    \E c \in Callers :
        /\ pc[c] = "done" /\ exit[c] = "ctx" /\ ret[c] = Plain(ctx[c])
        /\ attempts[c] >= 1
        /\ Len(calls[c]) = Len(waits[c])

(* C9: when the first Stop call of a Close returned a context cancel or    *)
(* deadline error, Close has returned that error, after that one Stop      *)
(* call and without a wait.                                                *)
C9_StopCancelEndsClose ==
    \A c \in Callers :
        op[c] = "Close" /\ calls[c] # <<>> /\ IsCancellation(calls[c][1].res)
            => /\ pc[c] = "done"
               /\ ret[c] = calls[c][1].res
               /\ Len(calls[c]) = 1
               /\ waits[c] = <<>>

C9_Witness ==
    \E c \in Callers :
        /\ Done(c, "Close") /\ calls[c] = <<[fn |-> "Stop", res |-> Canceled]>>
        /\ ret[c] = Canceled
        /\ reported[c] = 3 /\ stopperWait = 1

(* C10, as claimed: after an Abort on an ongoing transaction has returned  *)
(* the transaction is not ongoing, and a Close that follows it is a no-op  *)
(* that invokes no Stop.                                                   *)
C10_AbortEndsOngoing ==
    \A c \in Callers :
        /\ Done(c, "Abort") /\ exit[c] = "kill" => ~ongoing
        /\ op[c] = "Close" /\ prev[c].op = "Abort" /\ prev[c].exit = "kill"
            => pc[c] = "done" /\ exit[c] = "noop" /\ calls[c] = <<>>

(* C10, amended: after an Abort on an ongoing transaction has returned the *)
(* transaction is still ongoing, and a Close that follows it is no no-op:  *)
(* it has invoked Stop at least once when it returns.                      *)
C10_AbortKeepsOngoing ==
    \A c \in Callers :
        /\ Done(c, "Abort") /\ exit[c] = "kill" => ongoing
        /\ op[c] = "Close" /\ prev[c].op = "Abort" /\ prev[c].exit = "kill"
            => /\ entry[c]
               /\ pc[c] = "done" =>
                    /\ exit[c] # "noop"
                    /\ calls[c] # <<>>
                    /\ calls[c][1].fn = "Stop"

C10_Witness ==
    \E c \in Callers :
        /\ Done(c, "Close") /\ prev[c].op = "Abort" /\ prev[c].exit = "kill"
        /\ calls[c] # <<>>

(* C11: an Abort on an ongoing transaction that has returned invoked Kill  *)
(* once and nothing else, returned the error Kill returned, and left the   *)
(* ongoing flag as it was.                                                 *)
C11_AbortKillsOnce ==
    \A c \in Callers :
        Done(c, "Abort") /\ entry[c]
            => /\ Len(calls[c]) = 1
               /\ calls[c][1].fn = "Kill"
               /\ ret[c] = calls[c][1].res
               /\ waits[c] = <<>>
               /\ ongoing = entry[c]

C11_Witness ==
    \E c \in Callers :
        /\ Done(c, "Abort") /\ entry[c] /\ ongoing
        /\ calls[c] = <<[fn |-> "Kill", res |-> Plain("ErrA")]>>
        /\ ret[c] = Plain("ErrA")

(* C12: on a transaction whose first call was SetOngoing, a Close that     *)
(* follows it is no no-op: when it returns it has invoked Stop at least    *)
(* once.                                                                   *)
C12_SetOngoingThenCloseStops ==
    \A c \in Callers :
        op[c] = "Close" /\ prev[c].op = "SetOngoing" /\ prev[c].first
            => /\ entry[c]
               /\ pc[c] = "done" =>
                    /\ exit[c] # "noop"
                    /\ calls[c] # <<>>
                    /\ \A i \in 1..Len(calls[c]) : calls[c][i].fn = "Stop"

C12_Witness ==
    \E c \in Callers :
        /\ Done(c, "Close") /\ prev[c].op = "SetOngoing" /\ prev[c].first
        /\ Len(calls[c]) >= 1 /\ calls[c][1].fn = "Stop"

(* C13: after an Open that returned nil, a Close that did not end on a     *)
(* failing Stop or on the context returns nil, leaves the transaction not  *)
(* ongoing and has invoked Stop at least once.                             *)
C13_OpenThenCloseStops ==
    \A c \in Callers :
        /\ Done(c, "Close") /\ prev[c].op = "Open" /\ prev[c].ret = Nil
        /\ exit[c] # "ctx"
        /\ calls[c] # <<>> => LastResult(c) = Nil
        => /\ ret[c] = Nil
           /\ ~ongoing
           /\ calls[c] # <<>>

(* C14: an Open called on an ongoing transaction has returned nil at once, *)
(* with no Start call and no wait, and the transaction is ongoing.         *)
C14_OpenOnOngoingIsNoop ==
    \A c \in Callers :
        op[c] = "Open" /\ entry[c]
            => /\ pc[c] = "done"
               /\ ret[c] = Nil
               /\ calls[c] = <<>>
               /\ waits[c] = <<>>
               /\ ongoing

C14_Witness ==
    \E c \in Callers :
        Done(c, "Open") /\ entry[c] /\ exit[c] = "noop" /\ calls[c] = <<>>

(* C15: a Close called on a transaction that is not ongoing has returned   *)
(* nil at once, with no Stop call and no wait, and the transaction is not  *)
(* ongoing.                                                                *)
C15_CloseOnIdleIsNoop ==
    \A c \in Callers :
        op[c] = "Close" /\ ~entry[c]
            => /\ pc[c] = "done"
               /\ ret[c] = Nil
               /\ calls[c] = <<>>
               /\ waits[c] = <<>>
               /\ ~ongoing

C15_Witness ==
    \E c \in Callers :
        Done(c, "Close") /\ ~entry[c] /\ exit[c] = "noop" /\ calls[c] = <<>>

(* C16: an Abort called on a transaction that is not ongoing has returned  *)
(* nil with no Kill call.                                                  *)
C16_AbortOnIdleIsNoop ==
    \A c \in Callers :
        op[c] = "Abort" /\ ~entry[c]
            => /\ pc[c] = "done"
               /\ ret[c] = Nil
               /\ calls[c] = <<>>

C16_Witness ==
    \E c \in Callers :
        Done(c, "Abort") /\ ~entry[c] /\ exit[c] = "noop" /\ prev[c].op = "Close"

(* C17: after SetOngoing the flag is true, whatever it was before, no      *)
(* Start, Stop or Kill was invoked, and a second SetOngoing leaves the     *)
(* state the first one made.                                               *)
C17_SetOngoingSetsTrue ==
    \A c \in Callers :
        Done(c, "SetOngoing")
            => /\ ongoing
               /\ calls[c] = <<>>
               /\ waits[c] = <<>>
               /\ prev[c].op = "SetOngoing" => entry[c] /\ ongoing = entry[c]

C17_Witness ==
    \E c \in Callers :
        Done(c, "SetOngoing") /\ prev[c].op = "SetOngoing" /\ ~prev[c].entry /\ ongoing

MaxPathLen == 3

Names == {<<"a">>, <<"a", "b">>, <<"b">>}

RECURSIVE Join(_)
Join(comps) ==
    IF comps = <<>> THEN <<>> ELSE <<"/">> \o Head(comps) \o Join(Tail(comps))

AbsPaths == {Join(cs) : cs \in UNION {[1..n -> Names] : n \in 1..MaxPathLen}}

(* strings.HasPrefix *)
HasPrefix(s, t) == Len(t) <= Len(s) /\ SubSeq(s, 1, Len(t)) = t

(* strings.Index: where t first occurs in s, from 1; 0 when it does not. *)
Index(s, t) ==
    LET at == {i \in 1..(Len(s) - Len(t) + 1) : SubSeq(s, i, i + Len(t) - 1) = t}
    IN  IF at = {} THEN 0 ELSE CHOOSE i \in at : \A j \in at : i <= j

(* strings.Replace(s, old, "", 1) *)
Replace1(s, old) ==
    LET i == Index(s, old)
    IN  IF i = 0 THEN s
        ELSE SubSeq(s, 1, i - 1) \o SubSeq(s, i + Len(old), Len(s))

(* strings.Trim(s, "/") *)
RECURSIVE TrimSlash(_)
TrimSlash(s) ==
    IF s = <<>> THEN s
    ELSE IF Head(s) = "/" THEN TrimSlash(Tail(s))
    ELSE IF s[Len(s)] = "/" THEN TrimSlash(SubSeq(s, 1, Len(s) - 1))
    ELSE s

(* len(strings.Split(s, "/")): one more than the separators in s, so 1    *)
(* for the empty string.                                                   *)
SplitCount(s) == 1 + Cardinality({i \in 1..Len(s) : s[i] = "/"})

(* The position of the last separator of s, 0 when it has none. *)
LastSlash(s) ==
    LET at == {i \in 1..Len(s) : s[i] = "/"}
    IN  IF at = {} THEN 0 ELSE CHOOSE i \in at : \A j \in at : j <= i

(* filepath.Dir of a clean absolute path. *)
FileDir(s) == IF LastSlash(s) <= 1 THEN <<"/">> ELSE SubSeq(s, 1, LastSlash(s) - 1)

(* filepath.Base of a clean path. *)
Base(s) == SubSeq(s, LastSlash(s) + 1, Len(s))

(* removeTrailingSlash of Depth: drop one trailing separator, then         *)
(* filepath.Abs, which leaves an absolute clean path as it is.             *)
RemoveTrailingSlash(s) ==
    IF s # <<>> /\ s[Len(s)] = "/" THEN SubSeq(s, 1, Len(s) - 1) ELSE s

(* What os.Stat finds at a path. *)
StatKinds == {"none", "dir", "file", "error"}

(* Depth(root, path), kind being what os.Stat(path) finds. *)
Depth(root, path, kind) ==
    LET r == RemoveTrailingSlash(root)
        p == RemoveTrailingSlash(path)
        q == IF kind # "dir" THEN FileDir(p) ELSE p
    IN  IF r = p THEN [d |-> 0, err |-> "nil"]
        ELSE IF ~HasPrefix(p, r) THEN [d |-> -1, err |-> "nil"]
        ELSE IF kind = "none" THEN [d |-> 0, err |-> "InexistantError"]
        ELSE IF kind = "error" THEN [d |-> 0, err |-> "StatError"]
        ELSE [d |-> SplitCount(TrimSlash(Replace1(q, r))), err |-> "nil"]

(* The paths given to Depth: with or without a trailing separator. *)
DepthInputs == AbsPaths \cup {p \o <<"/">> : p \in AbsPaths}

(* The state of the transaction while the functions of package fs run. *)
InitFs == TxInit /\ backend = "mock" /\ stopperWait = PublishAttemptsWait

(* The result of a call that has not been made. *)
NoOut == [d |-> 0, err |-> "none"]

(* A call of Depth about to be made, on any inputs. *)
InitDepth ==
    /\ InitFs
    /\ fcall \in [fn : {"Depth"}, done : {FALSE}, root : DepthInputs,
                  path : DepthInputs, kind : StatKinds, out : {NoOut}]

DepthCall ==
    /\ fcall.fn = "Depth" /\ ~fcall.done
    /\ fcall' = [fcall EXCEPT !.done = TRUE,
                              !.out = Depth(fcall.root, fcall.path, fcall.kind)]
    /\ UNCHANGED <<tvars, cvars>>

SpecDepth == InitDepth /\ [][DepthCall]_vars

(* ---------------------------------------------------------------------- *)
(* Package fs: Directories.NotMatch.                                       *)
(* ---------------------------------------------------------------------- *)

(* Most directories of a collection, most patterns of a call, most        *)
(* characters of a pattern.                                               *)
MaxDirs == 2
MaxPatterns == 2
MaxPatLen == 2

(* The characters of a pattern: literals, ? and *. *)
PatChars == {"a", "b", "?", "*"}

Patterns == UNION {[1..n -> PatChars] : n \in 1..MaxPatLen}

(* filepath.Match(pattern, name) for a name without separators: ? is any   *)
(* one character, * any run of characters.                                 *)
RECURSIVE GlobMatch(_, _)
GlobMatch(pattern, name) ==
    IF pattern = <<>> THEN name = <<>>
    ELSE IF Head(pattern) = "*"
         THEN \E k \in 0..Len(name) :
                  GlobMatch(Tail(pattern), SubSeq(name, k + 1, Len(name)))
    ELSE /\ name # <<>>
         /\ Head(pattern) = "?" \/ Head(pattern) = Head(name)
         /\ GlobMatch(Tail(pattern), Tail(name))

(* The directories a collection is made of. *)
DirPaths == {Join(<<n>>) : n \in Names} \cup {Join(<<<<"b">>, n>>) : n \in Names}

(* The sequences without repetition of at most n elements of S. *)
SeqsNoRep(S, n) ==
    {q \in UNION {[1..k -> S] : k \in 0..n} :
        \A i \in 1..Len(q), j \in 1..Len(q) : i # j => q[i] # q[j]}

(* The inner loop of NotMatch: the directories of d, in order, whose name  *)
(* the pattern does not match.                                             *)
NotMatchOne(d, pattern) ==
    SelectSeq(d, LAMBDA dd : ~GlobMatch(pattern, Base(dd)))

(* The outer loop of NotMatch: one pass over d for each pattern, each      *)
(* appending to the result.                                                *)
RECURSIVE NotMatchLoop(_, _)
NotMatchLoop(d, patterns) ==
    IF patterns = <<>> THEN <<>>
    ELSE NotMatchOne(d, Head(patterns)) \o NotMatchLoop(d, Tail(patterns))

(* Directories.NotMatch *)
NotMatch(d, patterns) ==
    IF Len(patterns) = 0 THEN <<>> ELSE NotMatchLoop(d, patterns)

(* A call of NotMatch about to be made, on any collection and patterns. *)
InitNotMatch ==
    /\ InitFs
    /\ fcall \in [fn : {"NotMatch"}, done : {FALSE},
                  dirs : SeqsNoRep(DirPaths, MaxDirs),
                  patterns : UNION {[1..k -> Patterns] : k \in 0..MaxPatterns},
                  out : {<<>>}]

NotMatchCall ==
    /\ fcall.fn = "NotMatch" /\ ~fcall.done
    /\ fcall' = [fcall EXCEPT !.done = TRUE,
                              !.out = NotMatch(fcall.dirs, fcall.patterns)]
    /\ UNCHANGED <<tvars, cvars>>

SpecNotMatch == InitNotMatch /\ [][NotMatchCall]_vars

(* ---------------------------------------------------------------------- *)
(* Properties of package fs.                                               *)
(* ---------------------------------------------------------------------- *)
Range(q) == {q[i] : i \in 1..Len(q)}

(* C19: NotMatch with one or more patterns returns exactly the directories *)
(* of the collection whose base name matches none of the patterns, each at *)
(* most once; with no pattern it returns an empty collection.              *)
C19_NotMatchIsComplement ==
    fcall.fn = "NotMatch" /\ fcall.done =>
        LET none == {dd \in Range(fcall.dirs) :
                        \A i \in 1..Len(fcall.patterns) :
                            ~GlobMatch(fcall.patterns[i], Base(dd))}
        IN  IF fcall.patterns = <<>>
               THEN fcall.out = <<>>
               ELSE /\ Range(fcall.out) = none
                    /\ Len(fcall.out) = Cardinality(none)

(* path is root or lies below it, component by component. *)
Below(p, r) == HasPrefix(p, r \o <<"/">>)

(* C20: the depth of an existing file below root is the depth of its      *)
(* parent directory; Depth is 0 when root equals path and -1 when path is  *)
(* not below root.                                                         *)
C20_DepthOfFileIsParents ==
    fcall.fn = "Depth" /\ fcall.done =>
        LET r == RemoveTrailingSlash(fcall.root)
            p == RemoveTrailingSlash(fcall.path)
        IN  /\ r = p => fcall.out = [d |-> 0, err |-> "nil"]
            /\ r # p /\ ~Below(p, r) => fcall.out = [d |-> -1, err |-> "nil"]
            /\ fcall.kind = "file" /\ Below(p, r)
                => fcall.out = Depth(r, FileDir(p), "dir")

(* ---------------------------------------------------------------------- *)
(* Package fs: CopyFile, on a small file system.                           *)
(* ---------------------------------------------------------------------- *)

(* The file system: two top directories /a and /b, and below each of them  *)
(* the names a and f.                                                      *)
FsTops == {Join(<<<<"a">>>>), Join(<<<<"b">>>>)}
FsLeaves == {Join(<<t, n>>) : t \in {<<"a">>, <<"b">>}, n \in {<<"a">>, <<"f">>}}
FsPaths == FsTops \cup FsLeaves

(* What a file holds and its permission bits. *)
Contents == {<<"x">>, <<"y">>}
Modes == {"0644", "0755"}

(* os.Create opens with permission 0666 (before umask) when it makes the   *)
(* file.                                                                   *)
CreateMode == "0666"

Absent == [kind |-> "none", content |-> <<>>, mode |-> "none"]
DirEntry == [kind |-> "dir", content |-> <<>>, mode |-> "0755"]
FileEntry(c, m) == [kind |-> "file", content |-> c, mode |-> m]
TopFile == FileEntry(<<"x">>, "0644")

Entries == {Absent, DirEntry} \cup {FileEntry(c, m) : c \in Contents, m \in Modes}

(* The file systems: a path below a top path exists only when the top path *)
(* is a directory.                                                         *)
FsStates ==
    {fs \in [FsPaths -> Entries] :
        /\ \A t \in FsTops : fs[t] \in {Absent, DirEntry, TopFile}
        /\ \A l \in FsLeaves : fs[l] # Absent => fs[FileDir(l)] = DirEntry}

(* filepath.Clean of a path that has at most a trailing separator to lose. *)
Clean(s) == IF Len(s) > 1 /\ s[Len(s)] = "/" THEN SubSeq(s, 1, Len(s) - 1) ELSE s

(* filepath.Join(dir, name) *)
JoinPath(dir, name) == Clean(dir) \o <<"/">> \o name

(* What os.Stat finds at path p: nothing at the empty path or at a path    *)
(* the file system does not hold.                                          *)
Lookup(fs, p) == IF Clean(p) \in DOMAIN fs THEN fs[Clean(p)] ELSE Absent

(* os.Stat(p) fails with ENOTDIR on a file named with a trailing separator. *)
StatNotDir(fs, p) == p # Clean(p) /\ Lookup(fs, p).kind = "file"

(* The error values of package fs. *)
NoErr == [tag |-> "nil", path |-> <<>>]
InexistantError(p) == [tag |-> "InexistantError", path |-> p]
OsError(what) == [tag |-> what, path |-> <<>>]

(* The system calls of CopyFile that can fail for a reason of the          *)
(* environment (permissions, I/O).                                         *)
Fails == {"none", "stat", "open", "fstat", "create", "copy", "chmod"}

(* Exists(p): [ok, err] *)
Exists(fs, p, fail) ==
    IF fail = "stat" \/ StatNotDir(fs, p) THEN [ok |-> FALSE, err |-> OsError("stat")]
    ELSE [ok |-> Lookup(fs, p).kind # "none", err |-> NoErr]

(* os.Create(fname): the file is made empty with CreateMode, or an         *)
(* existing one is truncated and keeps its mode.                           *)
Created(fs, fname) ==
    IF fs[fname].kind = "file" THEN [fs EXCEPT ![fname].content = <<>>]
    ELSE [fs EXCEPT ![fname] = FileEntry(<<>>, CreateMode)]

(* os.Create(fname) fails when fname is a directory or its parent is none. *)
CreateFails(fs, fname, fail) ==
    \/ fail = "create"
    \/ fname \notin DOMAIN fs
    \/ fs[fname].kind = "dir"
    \/ fs[FileDir(fname)].kind # "dir"

(* CopyFile(src, dst) on the file system fs: the error returned and the    *)
(* file system left.                                                       *)
CopyFile(fs, src, dst, fail) ==
    LET fname == JoinPath(dst, Base(src))
        made == Created(fs, fname)
        \* io.Copy reads the source as it is after the create
        copied == [made EXCEPT ![fname].content = made[Clean(src)].content]
        moded == [copied EXCEPT ![fname].mode = fs[Clean(src)].mode]
    IN  IF FileDir(src) = dst \/ dst = <<>> THEN [err |-> NoErr, fs |-> fs]
        ELSE IF Exists(fs, src, fail).err # NoErr
            THEN [err |-> Exists(fs, src, fail).err, fs |-> fs]
        ELSE IF ~Exists(fs, src, fail).ok
            THEN [err |-> InexistantError(src), fs |-> fs]
        ELSE IF Exists(fs, dst, fail).err # NoErr
            THEN [err |-> Exists(fs, dst, fail).err, fs |-> fs]
        ELSE IF ~Exists(fs, dst, fail).ok
            THEN [err |-> InexistantError(dst), fs |-> fs]
        ELSE IF fail = "open" THEN [err |-> OsError("open"), fs |-> fs]
        ELSE IF fail = "fstat" THEN [err |-> OsError("fstat"), fs |-> fs]
        ELSE IF CreateFails(fs, fname, fail) THEN [err |-> OsError("create"), fs |-> fs]
        ELSE IF fail = "copy" \/ fs[Clean(src)].kind = "dir"
            THEN [err |-> OsError("copy"), fs |-> made]
        ELSE IF fail = "chmod" THEN [err |-> OsError("chmod"), fs |-> copied]
        ELSE [err |-> NoErr, fs |-> moded]

(* The arguments of CopyFile: src a path of the file system, dst a top     *)
(* path, as it is or with a trailing separator, or the empty string.       *)
CopySrcs == FsLeaves \cup {Join(<<<<"a">>>>)}
CopyDsts == {<<>>} \cup FsTops \cup {t \o <<"/">> : t \in FsTops}

(* A call of CopyFile about to be made, on any file system and arguments. *)
InitCopyFile ==
    /\ InitFs
    /\ fcall \in [fn : {"CopyFile"}, done : {FALSE}, fs : FsStates,
                  src : CopySrcs, dst : CopyDsts, fail : Fails,
                  out : {[err |-> NoErr, fs |-> <<>>]}]

CopyFileCall ==
    /\ fcall.fn = "CopyFile" /\ ~fcall.done
    /\ fcall' = [fcall EXCEPT !.done = TRUE,
                              !.out = CopyFile(fcall.fs, fcall.src, fcall.dst,
                                               fcall.fail)]
    /\ UNCHANGED <<tvars, cvars>>

SpecCopyFile == InitCopyFile /\ [][CopyFileCall]_vars

(* C21: CopyFile returns nil and changes nothing when dst is the directory *)
(* that holds src; it returns InexistantError naming the missing path, src *)
(* before dst, and changes nothing when src or dst does not exist;         *)
(* otherwise, src being a file, dst a directory and no system call         *)
(* failing, it returns nil and leaves in dst a file with src's base name,  *)
(* content and mode, the rest of the file system as it was.                *)
C21_CopyFileContract ==
    fcall.fn = "CopyFile" /\ fcall.done /\ fcall.fail = "none" =>
        LET fs == fcall.fs
            s == Lookup(fs, fcall.src)
            d == Lookup(fs, fcall.dst)
            fname == JoinPath(fcall.dst, Base(fcall.src))
        IN  IF s.kind = "none"
               THEN fcall.out = [err |-> InexistantError(fcall.src), fs |-> fs]
            ELSE IF d.kind = "none"
               THEN fcall.out = [err |-> InexistantError(fcall.dst), fs |-> fs]
            ELSE IF Clean(fcall.dst) = FileDir(fcall.src)
               THEN fcall.out = [err |-> NoErr, fs |-> fs]
            ELSE s.kind = "file" /\ d.kind = "dir" /\ fs[fname].kind # "dir"
                   => /\ fcall.out.err = NoErr
                      /\ fcall.out.fs = [fs EXCEPT ![fname] = s]

(* ---------------------------------------------------------------------- *)
(* Package fs: File.Touch, on the one path of the File.                    *)
(* ---------------------------------------------------------------------- *)

(* The latest time of the clock, and of the times a file carries. *)
MaxTime == 3

Times == 0..MaxTime

(* What is at the path: nothing, or a file or directory with its content,  *)
(* mode and times.                                                         *)
NoNode == [kind |-> "none", content |-> <<>>, mode |-> "none", mtime |-> 0, atime |-> 0]

TouchNodes ==
    {NoNode} \cup
    [kind : {"file"}, content : Contents \cup {<<>>}, mode : Modes,
     mtime : Times, atime : Times] \cup
    [kind : {"dir"}, content : {<<>>}, mode : {"0755"}, mtime : Times, atime : Times]

(* The system calls of Touch that can fail for a reason of the environment. *)
TouchFails == {"none", "stat", "create", "chtimes"}

(* A Touch that never updates what exists. *)
TouchSkips_always(ignoreIfExists, exists) == exists

(* `if ignoreIfExists && exists { return nil }` *)
TouchSkips(ignoreIfExists, exists) == ignoreIfExists /\ exists

(* File.Create: os.Create at time now, no Chmod for the default mode. *)
TouchCreate(now) ==
    [kind |-> "file", content |-> <<>>, mode |-> CreateMode, mtime |-> now, atime |-> now]

(* os.Chtimes(path, now, now) *)
Chtimes(node, now) == [node EXCEPT !.mtime = now, !.atime = now]

(* File.Touch(ignoreIfExists) at time now: the error returned and what is  *)
(* at the path afterwards.                                                 *)
Touch(node, ignoreIfExists, now, fail) ==
    LET exists == node.kind # "none"
        made == IF exists THEN node ELSE TouchCreate(now)
    IN  IF fail = "stat" THEN [err |-> OsError("stat"), node |-> node]
        ELSE IF TouchSkips(ignoreIfExists, exists) THEN [err |-> NoErr, node |-> node]
        ELSE IF ~exists /\ fail = "create" THEN [err |-> OsError("create"), node |-> node]
        ELSE IF fail = "chtimes" THEN [err |-> OsError("chtimes"), node |-> made]
        ELSE [err |-> NoErr, node |-> Chtimes(made, now)]

(* A call of Touch about to be made, on any path state and at any time. *)
InitTouch ==
    /\ InitFs
    /\ fcall \in [fn : {"Touch"}, done : {FALSE}, node : TouchNodes,
                  ignoreIfExists : BOOLEAN, now : Times, fail : TouchFails,
                  out : {[err |-> NoErr, node |-> NoNode]}]

TouchCall ==
    /\ fcall.fn = "Touch" /\ ~fcall.done
    /\ fcall' = [fcall EXCEPT !.done = TRUE,
                              !.out = Touch(fcall.node, fcall.ignoreIfExists,
                                            fcall.now, fcall.fail)]
    /\ UNCHANGED <<tvars, cvars>>

SpecTouch == InitTouch /\ [][TouchCall]_vars

(* C22: a Touch that returned nil on a path that did not exist has made an *)
(* empty file there; on an existing file Touch(true) leaves the            *)
(* modification time as it was and Touch(false), no system call failing,   *)
(* sets it to the time of the call; the mode of an existing file is never  *)
(* changed, whatever Touch returns.                                        *)
C22_TouchContract ==
    fcall.fn = "Touch" /\ fcall.done =>
        LET old == fcall.node
            new == fcall.out.node
        IN  /\ old.kind = "none" /\ fcall.out.err = NoErr
                => new.kind = "file" /\ new.content = <<>>
            /\ old.kind # "none" /\ fcall.ignoreIfExists
                => new.mtime = old.mtime
            /\ old.kind # "none" /\ ~fcall.ignoreIfExists /\ fcall.fail = "none"
                => fcall.out.err = NoErr /\ new.mtime = fcall.now
            /\ old.kind # "none"
                => new.mode = old.mode /\ new.kind = old.kind

C22_Witness ==
    /\ fcall.fn = "Touch" /\ fcall.done
    /\ fcall.node.kind = "file" /\ ~fcall.ignoreIfExists
    /\ fcall.node.mtime < fcall.now
    /\ fcall.out.node.mtime = fcall.now
    /\ fcall.out.node.mode = fcall.node.mode

(* ---------------------------------------------------------------------- *)
(* Properties of the transaction core, continued.                          *)
(* ---------------------------------------------------------------------- *)

(* A phase error that wraps a context cancel or deadline error. *)
WrappedCancellation(r) ==
    r.tag \in {"OpenError", "CloseError"} /\ r.of \in {"Canceled", "DeadlineExceeded"}

(* C23: Open and Close wait only between two attempts: a call whose last   *)
(* permitted attempt has failed is not in a wait, and when it has returned *)
(* it entered one wait less than it made backend invocations and did not   *)
(* return through the context.                                             *)
C23_WaitsOnlyBetweenAttempts ==
    \A c \in Callers :
        op[c] \in {"Open", "Close"} /\ calls[c] # <<>> /\ attempts[c] = 0
            => /\ pc[c] # "wait"
               /\ pc[c] = "done" =>
                    /\ Len(waits[c]) = Len(calls[c]) - 1
                    /\ exit[c] = "end"

(* C24: a backend call of Open or Close that returned a context cancel or  *)
(* deadline error wrapped in a phase error is the last one of the call,    *)
(* which has returned after it.                                            *)
C24_WrappedCancelIsTerminal ==
    \A c \in Callers :
        op[c] \in {"Open", "Close"} =>
            \A i \in 1..Len(calls[c]) :
                WrappedCancellation(calls[c][i].res)
                    => i = Len(calls[c]) /\ pc[c] = "done" /\ exit[c] = "end"

(* C25: with the cvmfs backend a backend call whose command ended without  *)
(* error returned nil; an Open whose first Start was such a call has       *)
(* returned nil after that one Start with the transaction ongoing, and a   *)
(* Close whose first Stop was such a call has cleared the flag after that  *)
(* one Stop.                                                               *)
C25_CvmfsSuccessIsNil ==
    backend = "cvmfs" =>
        \A c \in Callers :
            /\ \A i \in 1..Len(calls[c]) :
                   calls[c][i].res.of = "nil" => calls[c][i].res = Nil
            /\ Done(c, "Open") /\ calls[c] # <<>> /\ calls[c][1].res.of = "nil"
                   => Len(calls[c]) = 1 /\ ret[c] = Nil /\ ongoing
            /\ Done(c, "Close") /\ calls[c] # <<>> /\ calls[c][1].res.of = "nil"
                   => Len(calls[c]) = 1 /\ ~ongoing

(* C26: on a transaction built by the constructor of a backend, an Abort   *)
(* called while it is ongoing has its Aborter to call: it has returned     *)
(* after one call of Kill.                                                 *)
C26_AbortReachesKill ==
    backend \in {"cvmfs", "afs"} =>
        \A c \in Callers :
            op[c] = "Abort" /\ entry[c]
                => /\ pc[c] = "done"
                   /\ Len(calls[c]) = 1
                   /\ calls[c][1].fn = "Kill"

(* C27: a step that sets the ongoing flag is a Start that returned nil     *)
(* inside Open, or SetOngoing; a step that clears it is a step of Close.   *)
C27_FlagChanges ==
    [][/\ ~ongoing /\ ongoing' =>
            \E c \in Callers :
                \/ /\ op[c] = "Open" /\ pc[c] = "loop" /\ pc'[c] = "done"
                   /\ calls'[c] = Append(calls[c], [fn |-> "Start", res |-> Nil])
                \/ Free(c) /\ op'[c] = "SetOngoing" /\ pc'[c] = "done"
       /\ ongoing /\ ~ongoing' =>
            \E c \in Callers :
                op[c] = "Close" /\ pc[c] = "loop" /\ pc'[c] = "done"]_vars

C27_Witness ==
    \E c \in Callers :
        /\ Done(c, "Close") /\ entry[c] /\ ~ongoing
        /\ prev[c].op = "Open" /\ ~prev[c].entry /\ prev[c].exit = "end"
        /\ LastResult(c) = Plain("ErrA")

(* ---------------------------------------------------------------------- *)
(* Termination.  A call that is running goes on: a backend call returns,   *)
(* a wait ends by its timer or by its context.  Nothing makes a caller     *)
(* start a call, and nothing makes a context end.                          *)
(* ---------------------------------------------------------------------- *)
Progress(c) ==
    \/ OpenAttempt(c) \/ OpenExhausted(c)
    \/ WaitTimer(c) \/ WaitCtxDone(c)
    \/ CloseAttempt(c) \/ CloseExhausted(c)

SpecLive == Init /\ [][Next]_vars /\ \A c \in SeqCallers : WF_vars(Progress(c))

(* The attempt count an Open or a Close reads when it enters its loop. *)
CountAtEntry(c) == IF op[c] = "Open" THEN OpenAttempts ELSE PublishAttempts

(* C28: a call of Open or Close that is running returns, and it never has  *)
(* made more backend invocations than the attempt count it read at entry.  *)
C28_CallsTerminate ==
    /\ [](\A c \in Callers :
            op[c] \in {"Open", "Close"} => Len(calls[c]) <= CountAtEntry(c))
    /\ \A c \in Callers : (pc[c] \in {"loop", "wait"}) ~> (pc[c] = "done")

C28_Witness ==
    \E c \in Callers :
        /\ Done(c, "Close") /\ exit[c] = "end" /\ attempts[c] = 0
        /\ Len(calls[c]) = PublishAttempts /\ Len(waits[c]) = PublishAttempts
        /\ ctx[c] = "live"

(* C30: every backend invocation of a call is of the call's own            *)
(* capability: Start in Open, Stop in Close, Kill in Abort, none in        *)
(* SetOngoing.                                                             *)
C30_OwnCapabilityOnly ==
    \A c \in Callers :
        \A i \in 1..Len(calls[c]) :
            calls[c][i].fn =
                CASE op[c] = "Open" -> "Start"
                  [] op[c] = "Close" -> "Stop"
                  [] op[c] = "Abort" -> "Kill"
                  [] OTHER -> "none"

C30_Witness ==
    \E c \in Callers :
        /\ Done(c, "Abort") /\ calls[c] = <<[fn |-> "Kill", res |-> Nil]>>
        /\ prev[c].op = "Close" /\ prev[c].exit = "ctx"

(* ---------------------------------------------------------------------- *)
(* Two callers at once.  Each caller makes one call of Open on the         *)
(* transaction they share; the steps of the two calls interleave, the flag *)
(* being read and written without any lock.                                *)
(* ---------------------------------------------------------------------- *)

(* The first call of a caller: Open. *)
OpenOnce(c) == pc[c] = "idle" /\ OpenEnter(c)

StepConc(c) ==
    \/ OpenOnce(c) \/ OpenAttempt(c) \/ OpenExhausted(c)
    \/ WaitTimer(c) \/ WaitCtxDone(c) \/ CtxEvent(c)

NextConc == \E c \in Callers : StepConc(c)

SpecConc == Init /\ [][NextConc]_vars

(* C29: nothing excludes a second Open: a call of Open that is in its loop *)
(* with attempts left while the transaction has become ongoing leaves the  *)
(* loop only by invoking Start once more, the flag not being tested again. *)
C29_SecondOpenNotShortCircuited ==
    [][\A c \in Callers :
         /\ op[c] = "Open" /\ pc[c] = "loop" /\ attempts[c] > 0 /\ ongoing
         /\ pc'[c] # pc[c]
         => /\ Len(calls'[c]) = Len(calls[c]) + 1
            /\ calls'[c][Len(calls'[c])].fn = "Start"]_vars

(* Both calls of Open, each the first call of its caller, entered with the *)
(* transaction not ongoing, invoked Start, and both Start calls succeeded. *)
C29_Witness ==
    /\ ongoing
    /\ \A c \in Callers :
        /\ Done(c, "Open") /\ ~entry[c] /\ prev[c].op = "none"
        /\ calls[c] # <<>> /\ LastResult(c) = Nil
====
